---- MODULE Spec2Model ----
(***************************************************************************)
(* Transportation-AI-Visualizer: the transportation-problem solver of      *)
(* src/utils/solver.ts (least-cost start, MODI potentials, opportunity     *)
(* costs, closed-loop search, pivot) and the solver state it is run on.    *)
(*                                                                         *)
(* Rows, columns and cycle positions are 0-based as in the source.  A grid *)
(* is a function from <<r, c>> to a Cell record.  JavaScript's null,       *)
(* undefined and Infinity are integers outside the range of every value    *)
(* the model computes; every comparison with them is written out as the    *)
(* source writes it.                                                       *)
(***************************************************************************)
EXTENDS Integers, Sequences, FiniteSets, TLC

\* ------------------------------------------------------------------ bounds
\* Unit costs are drawn from MinCost..MaxCost (the generator draws 2..15).
MinCost == 2
MaxCost == 3
\* Supplies and demands are drawn from 0..MaxUnits (1..MaxUnits where the
\* generator's strictly positive amounts are modelled; the solver is linear
\* in the amounts, so one unit stands for any common positive amount).
MaxUnits == 2

\* ------------------------------------------------- JavaScript's non-numbers
Infinity == 1000000
Null == Infinity + 1
Undefined == Infinity + 2

\* JavaScript's + and - on an allocation and theta: Infinity absorbs.
JsAdd(a, b) == IF b = Infinity THEN Infinity ELSE a + b
JsSub(a, b) == IF b = Infinity THEN 0 - Infinity ELSE a - b

\* ----------------------------------------------------------------- helpers
Min(a, b) == IF a < b THEN a ELSE b

RowsOf(rows) == 0 .. (rows - 1)
ColsOf(cols) == 0 .. (cols - 1)
CellsOf(rows, cols) == RowsOf(rows) \X ColsOf(cols)

\* The i-th cell (0-based) of a row-major scan of a grid with cols columns.
CellAt(i, cols) == <<i \div cols, i % cols>>

RECURSIVE SumOver(_, _)
SumOver(S, f) ==
    IF S = {} THEN 0
    ELSE LET x == CHOOSE y \in S : TRUE IN f[x] + SumOver(S \ {x}, f)

\* grid.length and grid[0].length
GridRows(grid) == Cardinality({cell[1] : cell \in DOMAIN grid})
GridCols(grid) == Cardinality({cell[2] : cell \in DOMAIN grid})

\* ------------------------------------------------------------ ProblemState
\* The ProblemState of generateRandomProblem: supply and initialSupply are
\* the same amounts, as are demand and initialDemand.
ProblemState(nrows, ncols, costs, supply, demand) ==
    [rowCount |-> nrows, colCount |-> ncols, costs |-> costs,
     supply |-> supply, demand |-> demand,
     initialSupply |-> supply, initialDemand |-> demand]

\* "Balance the problem": total supply equals total demand.
IsBalanced(supply, demand) ==
    SumOver(DOMAIN supply, supply) = SumOver(DOMAIN demand, demand)

\* ------------------------------------------------------- createEmptyGrid
createEmptyGrid(rows, cols, costs) ==
    [cell \in CellsOf(rows, cols) |->
        [row |-> cell[1], col |-> cell[2], cost |-> costs[cell],
         allocation |-> Null, isBasin |-> FALSE,
         highlight |-> "none", opportunityCost |-> Undefined]]

\* ----------------------------------------------------- calculateTotalCost
\* `if (c.allocation) sum += c.allocation * c.cost`: null and 0 add nothing.
calculateTotalCost(grid) ==
    SumOver(DOMAIN grid,
            [cell \in DOMAIN grid |->
                IF grid[cell].allocation # Null /\ grid[cell].allocation # 0
                THEN grid[cell].allocation * grid[cell].cost
                ELSE 0])

\* --------------------------------------------------------- solveLeastCost
\* cellsList: the row-major list of cells, sorted by cost; Array.prototype.sort
\* is stable, so cells of equal cost keep their row-major order.
RECURSIVE SortByCost(_, _, _)
SortByCost(S, costs, cols) ==
    IF S = {} THEN << >>
    ELSE LET first == CHOOSE x \in S : \A y \in S :
                        \/ costs[x] < costs[y]
                        \/ /\ costs[x] = costs[y]
                           /\ x[1] * cols + x[2] <= y[1] * cols + y[2]
         IN  <<first>> \o SortByCost(S \ {first}, costs, cols)

cellsListOf(problem) ==
    SortByCost(CellsOf(problem.rowCount, problem.colCount),
               problem.costs, problem.colCount)

\* GreedyBody allocating the whole remaining supply of the row, Math.min
\* with the remaining demand left out.
GreedyBodyRowOnly(st, cell) ==
    IF st.s[cell[1]] > 0 /\ st.d[cell[2]] > 0
    THEN LET allocation == st.s[cell[1]]
         IN  [grid |-> [st.grid EXCEPT ![cell].allocation = allocation,
                                       ![cell].isBasin = TRUE],
              s |-> [st.s EXCEPT ![cell[1]] = @ - allocation],
              d |-> [st.d EXCEPT ![cell[2]] = @ - allocation],
              basicCellsCount |-> st.basicCellsCount + 1]
    ELSE st

\* The greedy loop over cellsList; st = [grid, s, d, basicCellsCount].
GreedyBody(st, cell) ==
    IF st.s[cell[1]] > 0 /\ st.d[cell[2]] > 0
    THEN LET allocation == Min(st.s[cell[1]], st.d[cell[2]])
         IN  [grid |-> [st.grid EXCEPT ![cell].allocation = allocation,
                                       ![cell].isBasin = TRUE],
              s |-> [st.s EXCEPT ![cell[1]] = @ - allocation],
              d |-> [st.d EXCEPT ![cell[2]] = @ - allocation],
              basicCellsCount |-> st.basicCellsCount + 1]
    ELSE st

RECURSIVE GreedyLoop(_, _, _)
GreedyLoop(cellsList, i, st) ==
    IF i > Len(cellsList) THEN st
    ELSE GreedyLoop(cellsList, i + 1, GreedyBody(st, cellsList[i]))

\* Degeneracy handling: the cheapest cells that are not basic become basic
\* with an artificial zero until `needed` reaches 0.
RepairBody(grid, cell) ==
    [grid EXCEPT ![cell].isBasin = TRUE, ![cell].allocation = 0]

\* RepairLoop breaking at needed <= 1, one artificial zero short.
RECURSIVE RepairLoopStopsEarly(_, _, _, _)
RepairLoopStopsEarly(cellsList, i, grid, needed) ==
    IF i > Len(cellsList) \/ needed <= 1 THEN grid
    ELSE IF ~grid[cellsList[i]].isBasin
         THEN RepairLoopStopsEarly(cellsList, i + 1,
                                   RepairBody(grid, cellsList[i]), needed - 1)
         ELSE RepairLoopStopsEarly(cellsList, i + 1, grid, needed)

RECURSIVE RepairLoop(_, _, _, _)
RepairLoop(cellsList, i, grid, needed) ==
    IF i > Len(cellsList) \/ needed <= 0 THEN grid
    ELSE IF ~grid[cellsList[i]].isBasin
         THEN RepairLoop(cellsList, i + 1, RepairBody(grid, cellsList[i]), needed - 1)
         ELSE RepairLoop(cellsList, i + 1, grid, needed)

solveLeastCost(problem) ==
    LET rows == problem.rowCount
        cols == problem.colCount
        cellsList == cellsListOf(problem)
        greedy == GreedyLoop(cellsList, 1,
                    [grid |-> createEmptyGrid(rows, cols, problem.costs),
                     s |-> problem.initialSupply,
                     d |-> problem.initialDemand,
                     basicCellsCount |-> 0])
        requiredBasic == rows + cols - 1
    IN  IF greedy.basicCellsCount < requiredBasic
        THEN RepairLoop(cellsList, 1, greedy.grid,
                        requiredBasic - greedy.basicCellsCount)
        ELSE greedy.grid

\* ---------------------------------------------------- calculatePotentials
\* One pass of the double for-loop, cell by cell in row-major order, on the
\* arrays u and v that the pass itself updates; st = [u, v, changed].
\* PotentialsBody deriving u[r] as cost + v[c].
PotentialsBodyPlus(grid, st, cell) ==
    LET r == cell[1]
        c == cell[2]
    IN  IF grid[cell].isBasin
        THEN IF st.u[r] # Null /\ st.v[c] = Null
             THEN [u |-> st.u,
                   v |-> [st.v EXCEPT ![c] = grid[cell].cost - st.u[r]],
                   changed |-> TRUE]
             ELSE IF st.v[c] # Null /\ st.u[r] = Null
                  THEN [u |-> [st.u EXCEPT ![r] = grid[cell].cost + st.v[c]],
                        v |-> st.v,
                        changed |-> TRUE]
                  ELSE st
        ELSE st

PotentialsBody(grid, st, cell) ==
    LET r == cell[1]
        c == cell[2]
    IN  IF grid[cell].isBasin
        THEN IF st.u[r] # Null /\ st.v[c] = Null
             THEN [u |-> st.u,
                   v |-> [st.v EXCEPT ![c] = grid[cell].cost - st.u[r]],
                   changed |-> TRUE]
             ELSE IF st.v[c] # Null /\ st.u[r] = Null
                  THEN [u |-> [st.u EXCEPT ![r] = grid[cell].cost - st.v[c]],
                        v |-> st.v,
                        changed |-> TRUE]
                  ELSE st
        ELSE st

RECURSIVE PotentialsPass(_, _, _, _, _)
PotentialsPass(grid, rows, cols, i, st) ==
    IF i >= rows * cols THEN st
    ELSE PotentialsPass(grid, rows, cols, i + 1,
                        PotentialsBody(grid, st, CellAt(i, cols)))

\* while (changed) { changed = false; <pass> }
RECURSIVE PotentialsWhile(_, _, _, _)
PotentialsWhile(grid, rows, cols, st) ==
    LET pass == PotentialsPass(grid, rows, cols, 0,
                               [u |-> st.u, v |-> st.v, changed |-> FALSE])
    IN  IF pass.changed THEN PotentialsWhile(grid, rows, cols, pass)
        ELSE [u |-> pass.u, v |-> pass.v]

calculatePotentials(grid, rows, cols) ==
    PotentialsWhile(grid, rows, cols,
        [u |-> [r \in RowsOf(rows) |-> IF r = 0 THEN 0 ELSE Null],
         v |-> [c \in ColsOf(cols) |-> Null],
         changed |-> TRUE])

\* ---------------------------------------------- calculateOpportunityCosts
\* enteringCell is a cell <<r, c>>, or NullCell for null.
NullCell == << >>

\* OpportunityBody with the parentheses of cost - (u + v) dropped.
OpportunityBodyUnparenthesised(st, u, v, cell) ==
    LET r == cell[1]
        c == cell[2]
    IN  IF ~st.grid[cell].isBasin /\ u[r] # Null /\ v[c] # Null
        THEN LET delta == st.grid[cell].cost - u[r] + v[c]
                 g == [st.grid EXCEPT ![cell].opportunityCost = delta]
             IN  IF delta < st.minDelta
                 THEN [grid |-> g, minDelta |-> delta, enteringCell |-> cell]
                 ELSE [grid |-> g, minDelta |-> st.minDelta,
                       enteringCell |-> st.enteringCell]
        ELSE [grid |-> [st.grid EXCEPT ![cell].opportunityCost = Undefined],
              minDelta |-> st.minDelta, enteringCell |-> st.enteringCell]

\* OpportunityBody comparing with <=, so that the last minimum enters.
OpportunityBodyLastMinimum(st, u, v, cell) ==
    LET r == cell[1]
        c == cell[2]
    IN  IF ~st.grid[cell].isBasin /\ u[r] # Null /\ v[c] # Null
        THEN LET delta == st.grid[cell].cost - (u[r] + v[c])
                 g == [st.grid EXCEPT ![cell].opportunityCost = delta]
             IN  IF delta <= st.minDelta
                 THEN [grid |-> g, minDelta |-> delta, enteringCell |-> cell]
                 ELSE [grid |-> g, minDelta |-> st.minDelta,
                       enteringCell |-> st.enteringCell]
        ELSE [grid |-> [st.grid EXCEPT ![cell].opportunityCost = Undefined],
              minDelta |-> st.minDelta, enteringCell |-> st.enteringCell]

\* One cell of the row-major scan; st = [grid, minDelta, enteringCell].
OpportunityBody(st, u, v, cell) ==
    LET r == cell[1]
        c == cell[2]
    IN  IF ~st.grid[cell].isBasin /\ u[r] # Null /\ v[c] # Null
        THEN LET delta == st.grid[cell].cost - (u[r] + v[c])
                 g == [st.grid EXCEPT ![cell].opportunityCost = delta]
             IN  IF delta < st.minDelta
                 THEN [grid |-> g, minDelta |-> delta, enteringCell |-> cell]
                 ELSE [grid |-> g, minDelta |-> st.minDelta,
                       enteringCell |-> st.enteringCell]
        ELSE [grid |-> [st.grid EXCEPT ![cell].opportunityCost = Undefined],
              minDelta |-> st.minDelta, enteringCell |-> st.enteringCell]

RECURSIVE OpportunityLoop(_, _, _, _, _, _)
OpportunityLoop(rows, cols, i, st, u, v) ==
    IF i >= rows * cols THEN st
    ELSE OpportunityLoop(rows, cols, i + 1,
                         OpportunityBody(st, u, v, CellAt(i, cols)), u, v)

calculateOpportunityCosts(grid, u, v) ==
    OpportunityLoop(GridRows(grid), GridCols(grid), 0,
                    [grid |-> grid, minDelta |-> Infinity,
                     enteringCell |-> NullCell],
                    u, v)

\* ---------------------------------------------------------------- findLoop
\* A loop is the sequence `path` of LoopNodes <<r, c>>; NullLoop is null.
NullLoop == << >>

\* nextNodesOf without the isBasin test: every other cell of the row
\* (column) is a next node.
nextNodesAnyCell(current, isHorizontal, start, grid, rows, cols) ==
    IF isHorizontal
    THEN SelectSeq([i \in 1 .. cols |-> <<current[1], i - 1>>],
                   LAMBDA n : n[2] # current[2])
    ELSE SelectSeq([i \in 1 .. rows |-> <<i - 1, current[2]>>],
                   LAMBDA n : n[1] # current[1])

\* nextNodesOf without the "back to start" case: only basic cells are next
\* nodes, so a search never returns to a non-basic start.
nextNodesNoStart(current, isHorizontal, start, grid, rows, cols) ==
    IF isHorizontal
    THEN SelectSeq([i \in 1 .. cols |-> <<current[1], i - 1>>],
                   LAMBDA n : n[2] # current[2] /\ grid[n].isBasin)
    ELSE SelectSeq([i \in 1 .. rows |-> <<i - 1, current[2]>>],
                   LAMBDA n : n[1] # current[1] /\ grid[n].isBasin)

\* nextNodes of search(): the cells of the current row (column), by
\* ascending column (row), that are the start cell or basic.
nextNodesOf(current, isHorizontal, start, grid, rows, cols) ==
    IF isHorizontal
    THEN SelectSeq([i \in 1 .. cols |-> <<current[1], i - 1>>],
                   LAMBDA n : /\ n[2] # current[2]
                              /\ \/ (n[2] = start[2] /\ current[1] = start[1])
                                 \/ grid[n].isBasin)
    ELSE SelectSeq([i \in 1 .. rows |-> <<i - 1, current[2]>>],
                   LAMBDA n : /\ n[1] # current[1]
                              /\ \/ (n[1] = start[1] /\ current[2] = start[2])
                                 \/ grid[n].isBasin)

\* search(current, isHorizontal) on the shared `path` and `visited`; the
\* result is [found, path, visited] as the call leaves them.
RECURSIVE search(_, _, _, _, _, _, _, _)
RECURSIVE searchNext(_, _, _, _, _, _, _, _, _, _)
search(current, isHorizontal, path, visited, start, grid, rows, cols) ==
    LET pushed == Append(path, current)
        seen == visited \cup {current}
    IN  IF Len(pushed) >= 4 /\ current = start
        THEN [found |-> TRUE, path |-> pushed, visited |-> seen]
        ELSE IF Len(pushed) > 1 /\ current = start
             THEN [found |-> FALSE, path |-> path, visited |-> seen]
             ELSE searchNext(nextNodesOf(current, isHorizontal, start, grid, rows, cols),
                             1, current, isHorizontal, pushed, seen,
                             start, grid, rows, cols)

\* for (const next of nextNodes) { ... } and the backtrack after it.
searchNext(nextNodes, i, current, isHorizontal, path, visited, start, grid, rows, cols) ==
    IF i > Len(nextNodes)
    THEN [found |-> FALSE, path |-> SubSeq(path, 1, Len(path) - 1),
          visited |-> visited \ {current}]
    ELSE LET next == nextNodes[i]
             isPrev == Len(path) >= 2 /\ path[Len(path) - 1] = next
             isStart == next = start
         IN  IF ~isPrev /\ (next \notin visited \/ isStart)
             THEN LET sub == search(next, ~isHorizontal, path, visited,
                                    start, grid, rows, cols)
                  IN  IF sub.found THEN sub
                      ELSE searchNext(nextNodes, i + 1, current, isHorizontal,
                                      sub.path, sub.visited, start, grid, rows, cols)
             ELSE searchNext(nextNodes, i + 1, current, isHorizontal,
                             path, visited, start, grid, rows, cols)

findLoop(start, grid) ==
    LET rows == GridRows(grid)
        cols == GridCols(grid)
        horizontal == search(start, TRUE, << >>, {}, start, grid, rows, cols)
        vertical == search(start, FALSE, << >>, {}, start, grid, rows, cols)
    IN  IF horizontal.found THEN horizontal.path
        ELSE IF vertical.found THEN vertical.path
             ELSE NullLoop

\* -------------------------------------------------------------- applyPivot
\* loop[i] of the source (0-based).
NodeAt(loop, i) == loop[i + 1]

\* ThetaLoop comparing with <=, so that the last minimum leaves.
RECURSIVE ThetaLoopLastMinimum(_, _, _, _)
ThetaLoopLastMinimum(grid, loop, i, st) ==
    IF i >= Len(loop) THEN st
    ELSE LET node == NodeAt(loop, i)
             alloc == grid[node].allocation
         IN  IF alloc # Null /\ alloc <= st.theta
             THEN ThetaLoopLastMinimum(grid, loop, i + 2,
                                       [theta |-> alloc, leavingNode |-> node])
             ELSE ThetaLoopLastMinimum(grid, loop, i + 2, st)

\* theta and leavingNode: for (i = 1; i < loop.length; i += 2);
\* st = [theta, leavingNode].
RECURSIVE ThetaLoop(_, _, _, _)
ThetaLoop(grid, loop, i, st) ==
    IF i >= Len(loop) THEN st
    ELSE LET node == NodeAt(loop, i)
             alloc == grid[node].allocation
         IN  IF alloc # Null /\ alloc < st.theta
             THEN ThetaLoop(grid, loop, i + 2, [theta |-> alloc, leavingNode |-> node])
             ELSE ThetaLoop(grid, loop, i + 2, st)

\* Apply theta: for (i = 0; i < loop.length - 1; i++).
RECURSIVE ApplyThetaLoop(_, _, _, _)
ApplyThetaLoop(newGrid, loop, i, theta) ==
    IF i >= Len(loop) - 1 THEN newGrid
    ELSE LET node == NodeAt(loop, i)
         IN  IF i % 2 = 0
             THEN ApplyThetaLoop(
                    [newGrid EXCEPT ![node].allocation = JsAdd(@, theta),
                                    ![node].isBasin = TRUE],
                    loop, i + 1, theta)
             ELSE ApplyThetaLoop(
                    [newGrid EXCEPT ![node].allocation = JsSub(@, theta)],
                    loop, i + 1, theta)

\* applyPivot where every minus cell that reaches 0 leaves the basis, not
\* only the leaving node.
applyPivotZerosLeave(grid, loop) ==
    LET found == ThetaLoop(grid, loop, 1,
                           [theta |-> Infinity, leavingNode |-> NullCell])
        copied == [cell \in DOMAIN grid |->
                     [grid[cell] EXCEPT !.allocation =
                        IF @ = Null THEN 0 ELSE @]]
        applied == ApplyThetaLoop(copied, loop, 0, found.theta)
        left == [cell \in DOMAIN grid |->
                    IF /\ \E i \in 1 .. Len(loop) : i % 2 = 0 /\ loop[i] = cell
                       /\ applied[cell].allocation = 0
                    THEN [applied[cell] EXCEPT !.isBasin = FALSE,
                                               !.allocation = Null]
                    ELSE applied[cell]]
        entered == [left EXCEPT ![NodeAt(loop, 0)].isBasin = TRUE]
    IN  [newGrid |-> [cell \in DOMAIN grid |->
                        IF ~entered[cell].isBasin
                        THEN [entered[cell] EXCEPT !.allocation = Null]
                        ELSE entered[cell]],
         theta |-> found.theta]

applyPivot(grid, loop) ==
    LET found == ThetaLoop(grid, loop, 1,
                           [theta |-> Infinity, leavingNode |-> NullCell])
        copied == [cell \in DOMAIN grid |->
                     [grid[cell] EXCEPT !.allocation =
                        IF @ = Null THEN 0 ELSE @]]
        applied == ApplyThetaLoop(copied, loop, 0, found.theta)
        left == IF found.leavingNode # NullCell
                THEN [applied EXCEPT ![found.leavingNode].isBasin = FALSE,
                                     ![found.leavingNode].allocation = Null]
                ELSE applied
        entered == [left EXCEPT ![NodeAt(loop, 0)].isBasin = TRUE]
    IN  [newGrid |-> [cell \in DOMAIN grid |->
                        IF ~entered[cell].isBasin
                        THEN [entered[cell] EXCEPT !.allocation = Null]
                        ELSE entered[cell]],
         theta |-> found.theta]

\* ---------------------------------------------------- performFullIteration
\* The result is tagged by kind: "optimal" {isOptimal: true, grid, cost},
\* "error" {isError: true}, or "pivot" {isOptimal: false, grid, cost, theta}.
cleanGridOf(newGrid) ==
    [cell \in DOMAIN newGrid |->
        [newGrid[cell] EXCEPT !.opportunityCost = Undefined, !.highlight = "none"]]

performFullIteration(grid, rows, cols) ==
    LET uv == calculatePotentials(grid, rows, cols)
        deltas == calculateOpportunityCosts(grid, uv.u, uv.v)
    IN  IF deltas.minDelta >= 0
        THEN [kind |-> "optimal", grid |-> deltas.grid,
              cost |-> calculateTotalCost(deltas.grid), theta |-> Undefined]
        ELSE IF deltas.enteringCell = NullCell
             THEN [kind |-> "error", grid |-> grid, cost |-> Undefined,
                   theta |-> Undefined]
             ELSE LET loop == findLoop(deltas.enteringCell, deltas.grid)
                  IN  IF loop = NullLoop
                      THEN [kind |-> "error", grid |-> grid, cost |-> Undefined,
                            theta |-> Undefined]
                      ELSE LET pivot == applyPivot(deltas.grid, loop)
                               cleanGrid == cleanGridOf(pivot.newGrid)
                           IN  [kind |-> "pivot", grid |-> cleanGrid,
                                cost |-> calculateTotalCost(cleanGrid),
                                theta |-> pivot.theta]

\* ------------------------------------------------------------ solver state
VARIABLES
    problem,       \* ProblemState
    grid,          \* SolverState.grid
    u,             \* SolverState.u
    v,             \* SolverState.v
    totalCost,     \* SolverState.totalCost
    status,        \* SolverState.status
    message,       \* SolverState.message, by the kind of text it holds
    iteration,     \* SolverState.iteration
    minDelta,      \* minDelta of the last calculateOpportunityCosts
    enteringCell,  \* enteringCell of the last calculateOpportunityCosts
    loop,          \* result of the last findLoop
    theta,         \* theta of the last applyPivot
    isAutoSolving, \* the App's isAutoSolving
    timer,         \* the pending timeout of the auto-solve effect, if any
    flights        \* the calls of handleNextIteration waiting in a delay

vars == <<problem, grid, u, v, totalCost, status, message, iteration,
          minDelta, enteringCell, loop, theta, isAutoSolving, timer, flights>>

rows == problem.rowCount
cols == problem.colCount

nullPotentials(n) == [i \in 0 .. (n - 1) |-> Null]

\* No timeout pending; a pending one holds what the closure of its callback
\* captured: the solver grid and iteration and the problem of the render in
\* which the effect ran.
NoTimer == << >>

TimerFor(p, g, it) == <<[problem |-> p, grid |-> g, iteration |-> it]>>


\* An effect that sets its timeout only when auto-solving is switched on, and
\* not when the status comes back to 'ready'.
AutoSolveEffectOnce(auto) ==
    /\ isAutoSolving' = (auto /\ status' # "optimal")
    /\ timer' = IF auto = isAutoSolving /\ status' = status THEN timer
                ELSE IF auto /\ ~isAutoSolving /\ status' = "ready"
                     THEN TimerFor(problem', grid', iteration')
                     ELSE NoTimer

\* The auto-solve effect, run after the render that follows a handler which
\* leaves isAutoSolving = auto: when isAutoSolving or solver.status changed, the
\* cleanup clears the pending timeout and the effect sets a new one if
\* auto-solving in status 'ready', or switches auto-solving off in status
\* 'optimal'.
AutoSolveEffect(auto) ==
    /\ isAutoSolving' = (auto /\ status' # "optimal")
    /\ timer' = IF auto = isAutoSolving /\ status' = status THEN timer
                ELSE IF auto /\ status' = "ready"
                     THEN TimerFor(problem', grid', iteration')
                     ELSE NoTimer

\* The solver state handleGenerate sets for a new problem: the empty table,
\* status 'input'.
InputState(p) ==
    /\ problem = p
    /\ grid = createEmptyGrid(p.rowCount, p.colCount, p.costs)
    /\ u = nullPotentials(p.rowCount)
    /\ v = nullPotentials(p.colCount)
    /\ totalCost = 0
    /\ status = "input"
    /\ message = "table built"
    /\ iteration = 0
    /\ minDelta = Infinity
    /\ enteringCell = NullCell
    /\ loop = NullLoop
    /\ theta = Undefined
    /\ isAutoSolving = FALSE
    /\ timer = NoTimer
    /\ flights = << >>

\* useState<ProblemState | null>(null): no problem generated yet.
NoProblem == ProblemState(0, 0, << >>, << >>, << >>)

\* handleStart: the initial basic feasible solution, status 'ready'.
handleStart ==
    /\ problem # NoProblem
    /\ status = "input"
    /\ LET initialGrid == solveLeastCost(problem)
       IN  /\ grid' = initialGrid
           /\ totalCost' = calculateTotalCost(initialGrid)
    /\ u' = nullPotentials(rows)
    /\ v' = nullPotentials(cols)
    /\ status' = "ready"
    /\ message' = "initial solution"
    /\ iteration' = 1
    /\ UNCHANGED <<problem, minDelta, enteringCell, loop, theta>>
    /\ AutoSolveEffect(isAutoSolving)
    /\ UNCHANGED flights

\* One call of performFullIteration on the current grid: the grid, cost and
\* theta it returns replace the current ones; isOptimal and isError end the
\* solve.
FullIteration ==
    /\ status = "ready"
    /\ LET result == performFullIteration(grid, rows, cols)
       IN  /\ grid' = IF result.kind = "error" THEN grid ELSE result.grid
           /\ totalCost' = IF result.kind = "error" THEN totalCost ELSE result.cost
           /\ theta' = IF result.kind = "pivot" THEN result.theta ELSE theta
           /\ status' = CASE result.kind = "optimal" -> "optimal"
                          [] result.kind = "error" -> "error"
                          [] OTHER -> "ready"
    /\ UNCHANGED <<problem, u, v, message, iteration, minDelta, enteringCell, loop>>
    /\ UNCHANGED <<isAutoSolving, timer, flights>>

\* Solving: every balanced problem of the shapes below (amounts 0..MaxUnits,
\* costs MinCost..MaxCost), then handleStart and full iterations until the
\* solver reports optimal or an error.
SolveShapes == {<<1, 1>>, <<1, 3>>, <<3, 1>>, <<2, 2>>, <<2, 3>>}

\* Some balanced problem of one of the shapes, amounts and costs given, as
\* handleGenerate leaves it.
GeneratedState(shapes, units, costRange) ==
    \E shape \in shapes :
        \E costs \in [CellsOf(shape[1], shape[2]) -> costRange],
           supply \in [RowsOf(shape[1]) -> units],
           demand \in [ColsOf(shape[2]) -> units] :
            /\ IsBalanced(supply, demand)
            /\ InputState(ProblemState(shape[1], shape[2], costs, supply, demand))

SolveInit == GeneratedState(SolveShapes, 0 .. MaxUnits, MinCost .. MaxCost)

SolveNext == handleStart \/ FullIteration

Spec == SolveInit /\ [][SolveNext]_vars

\* The same on every balanced 3 x 3 problem with strictly positive amounts,
\* the smallest shape the generator's problems (amounts >= 20, shapes 2..6)
\* need for two allocations that each exhaust a row and a column at once.
SquareInit == GeneratedState({<<3, 3>>}, 1 .. MaxUnits, MinCost .. MaxCost)

SpecSquare == SquareInit /\ [][SolveNext]_vars

\* ------------------------------------------------------ the basis as a graph
\* The basic cells of a grid, read as edges between row r and column c.
BasicCells(g) == {cell \in DOMAIN g : g[cell].isBasin}

\* The rows and columns joined to row 0 by basic cells: nodes are
\* <<"r", i>> and <<"c", j>>.
RECURSIVE ReachedFrom(_, _)
ReachedFrom(nodes, edges) ==
    LET more == nodes
                \cup {<<"c", e[2]>> : e \in {x \in edges : <<"r", x[1]>> \in nodes}}
                \cup {<<"r", e[1]>> : e \in {x \in edges : <<"c", x[2]>> \in nodes}}
    IN  IF more = nodes THEN nodes ELSE ReachedFrom(more, edges)

IsConnected(g) ==
    ReachedFrom({<<"r", 0>>}, BasicCells(g))
        = {<<"r", r>> : r \in RowsOf(GridRows(g))}
          \cup {<<"c", c>> : c \in ColsOf(GridCols(g))}

\* A set of edges has no cycle iff stripping edges that end in a node of
\* degree one, again and again, leaves nothing.
RECURSIVE IsForest(_)
IsForest(edges) ==
    LET leaves == {e \in edges :
                     \/ \A x \in edges : x[1] = e[1] => x = e
                     \/ \A x \in edges : x[2] = e[2] => x = e}
    IN  IF edges = {} THEN TRUE
        ELSE IF leaves = {} THEN FALSE
             ELSE IsForest(edges \ leaves)

IsSpanningTree(g) == IsConnected(g) /\ IsForest(BasicCells(g))

BasisInvariant(g) ==
    /\ Cardinality(BasicCells(g)) = GridRows(g) + GridCols(g) - 1
    /\ IsSpanningTree(g)

\* ------------------------------------------- the solver's functions, one by one
\* A grid given by its costs and allocations: a cell is basic iff it carries
\* an allocation (possibly 0), as in every grid solveLeastCost and applyPivot
\* return.
GridOf(nrows, ncols, costs, alloc) ==
    [cell \in CellsOf(nrows, ncols) |->
        [row |-> cell[1], col |-> cell[2], cost |-> costs[cell],
         allocation |-> alloc[cell], isBasin |-> alloc[cell] # Null,
         highlight |-> "none", opportunityCost |-> Undefined]]

\* The balanced problem a grid is a feasible allocation of.
ProblemOf(g) ==
    LET s == [r \in RowsOf(GridRows(g)) |->
                SumOver({cell \in DOMAIN g : cell[1] = r},
                        [cell \in DOMAIN g |->
                            IF g[cell].allocation = Null THEN 0
                            ELSE g[cell].allocation])]
        d == [c \in ColsOf(GridCols(g)) |->
                SumOver({cell \in DOMAIN g : cell[2] = c},
                        [cell \in DOMAIN g |->
                            IF g[cell].allocation = Null THEN 0
                            ELSE g[cell].allocation])]
    IN  ProblemState(GridRows(g), GridCols(g),
                     [cell \in DOMAIN g |-> g[cell].cost], s, d)

\* The solver state with grid g, ready for an iteration.
ReadyState(g) ==
    /\ problem = ProblemOf(g)
    /\ grid = g
    /\ u = nullPotentials(GridRows(g))
    /\ v = nullPotentials(GridCols(g))
    /\ totalCost = calculateTotalCost(g)
    /\ status = "ready"
    /\ message = "initial solution"
    /\ iteration = 1
    /\ minDelta = Infinity
    /\ enteringCell = NullCell
    /\ loop = NullLoop
    /\ theta = Undefined
    /\ isAutoSolving = FALSE
    /\ timer = NoTimer
    /\ flights = << >>

\* calculatePotentials on the current grid (handleNextStep, case 'ready').
PotentialsStep ==
    /\ status = "ready"
    /\ LET uv == calculatePotentials(grid, rows, cols)
       IN  u' = uv.u /\ v' = uv.v
    /\ status' = "potentials"
    /\ UNCHANGED <<problem, grid, totalCost, message, iteration, minDelta,
                   enteringCell, loop, theta>>
    /\ UNCHANGED <<isAutoSolving, timer, flights>>

\* calculateOpportunityCosts on the current grid and potentials.
OpportunityStep ==
    /\ status = "potentials"
    /\ LET deltas == calculateOpportunityCosts(grid, u, v)
       IN  /\ grid' = deltas.grid
           /\ minDelta' = deltas.minDelta
           /\ enteringCell' = deltas.enteringCell
    /\ status' = "deltas"
    /\ UNCHANGED <<problem, u, v, totalCost, message, iteration, loop, theta>>
    /\ UNCHANGED <<isAutoSolving, timer, flights>>

\* findLoop from one of the cells `starts` on the current grid.
FindLoopStep(starts) ==
    /\ status = "ready"
    /\ \E start \in starts :
          /\ enteringCell' = start
          /\ loop' = findLoop(start, grid)
    /\ status' = IF loop' = NullLoop THEN "error" ELSE "loop"
    /\ UNCHANGED <<problem, grid, u, v, totalCost, message, iteration,
                   minDelta, theta>>
    /\ UNCHANGED <<isAutoSolving, timer, flights>>

\* applyPivot along the loop found, then ready for the next entering cell.
ApplyPivotStep ==
    /\ status = "loop"
    /\ LET pivot == applyPivot(grid, loop)
       IN  /\ grid' = pivot.newGrid
           /\ theta' = pivot.theta
           /\ totalCost' = calculateTotalCost(pivot.newGrid)
    /\ status' = "ready"
    /\ UNCHANGED <<problem, u, v, message, iteration, minDelta, enteringCell, loop>>
    /\ UNCHANGED <<isAutoSolving, timer, flights>>

\* Potentials and opportunity costs: every 2 x 3 grid, whatever cells are
\* basic, with every cost matrix.
DualInit ==
    \E costs \in [CellsOf(2, 3) -> MinCost .. MaxCost],
       basis \in SUBSET CellsOf(2, 3) :
        ReadyState(GridOf(2, 3, costs,
                          [cell \in CellsOf(2, 3) |->
                              IF cell \in basis THEN 0 ELSE Null]))

DualNext == PotentialsStep \/ OpportunityStep

SpecDual == DualInit /\ [][DualNext]_vars

\* Loop search: every 3 x 3 grid, whatever cells are basic, from every
\* start cell.
LoopInit ==
    \E basis \in SUBSET CellsOf(3, 3) :
        ReadyState(GridOf(3, 3, [cell \in CellsOf(3, 3) |-> MinCost],
                          [cell \in CellsOf(3, 3) |->
                              IF cell \in basis THEN 0 ELSE Null]))

LoopNext == FindLoopStep(DOMAIN grid)

SpecLoop == LoopInit /\ [][LoopNext]_vars

\* Pivots: every 3 x 3 grid whose basic cells form a spanning tree, with
\* every allocation 0..MaxAlloc on them; any non-basic cell enters, the loop
\* is found and the pivot applied, again and again.
MaxAlloc == 1

TreeBases(nrows, ncols) ==
    { basis \in SUBSET CellsOf(nrows, ncols) :
        /\ Cardinality(basis) = nrows + ncols - 1
        /\ LET g == GridOf(nrows, ncols, [cell \in CellsOf(nrows, ncols) |-> MinCost],
                           [cell \in CellsOf(nrows, ncols) |->
                               IF cell \in basis THEN 0 ELSE Null])
           IN  IsSpanningTree(g) }

PivotInit ==
    \E basis \in TreeBases(3, 3) :
        \E alloc \in [basis -> 0 .. MaxAlloc] :
            ReadyState(GridOf(3, 3, [cell \in CellsOf(3, 3) |-> MinCost],
                              [cell \in CellsOf(3, 3) |->
                                  IF cell \in basis THEN alloc[cell] ELSE Null]))

PivotNext == FindLoopStep(DOMAIN grid \ BasicCells(grid)) \/ ApplyPivotStep

SpecPivot == PivotInit /\ [][PivotNext]_vars

\* ------------------------------------------------ the App's step handlers
\* The value of status after a TypeError thrown inside the setSolver updater:
\* nothing catches it, React unmounts the App and no handler runs again.
Crashed == "crashed"

\* let enteringNode = {r: -1, c: -1}; grid.forEach(... if (c.highlight ===
\* 'entering') enteringNode = ...): the last marked cell in row-major order.
enteringNodeOf(g) ==
    LET marked == {cell \in DOMAIN g : g[cell].highlight = "entering"}
        index(cell) == cell[1] * GridCols(g) + cell[2]
    IN  IF marked = {} THEN <<-1, -1>>
        ELSE CHOOSE cell \in marked : \A other \in marked : index(other) <= index(cell)

\* findLoop(start, grid) reads grid[start.r][c] for the first c # start.c:
\* with start.r outside the grid, grid[start.r] is undefined and the read
\* throws a TypeError.
findLoopThrows(start, g) == start[1] \notin RowsOf(GridRows(g))

\* loop.forEach((node, idx) => { if (idx === 0) return; highlight = idx % 2
\* === 0 ? 'loop-plus' : 'loop-minus' }), from idx = i on.
RECURSIVE markLoop(_, _, _)
markLoop(g, path, i) ==
    IF i >= Len(path) THEN g
    ELSE IF i = 0 THEN markLoop(g, path, i + 1)
         ELSE markLoop([g EXCEPT ![NodeAt(path, i)].highlight =
                            IF i % 2 = 0 THEN "loop-plus" ELSE "loop-minus"],
                       path, i + 1)

\* gridWithDeltas[enteringCell.r][enteringCell.c].highlight = 'entering'
markEntering(g, cell) ==
    IF cell # NullCell THEN [g EXCEPT ![cell].highlight = "entering"] ELSE g

\* handleNextStep, case 'ready': calculatePotentials.
StepReady ==
    /\ status = "ready"
    /\ LET uv == calculatePotentials(grid, rows, cols)
       IN  u' = uv.u /\ v' = uv.v
    /\ status' = "potentials"
    /\ message' = "potentials"
    /\ UNCHANGED <<problem, grid, totalCost, iteration, minDelta,
                   enteringCell, loop, theta>>
    /\ AutoSolveEffect(isAutoSolving)
    /\ UNCHANGED flights

\* As StepPotentials, but a smallest opportunity cost of -1 already counts as
\* optimal.
StepPotentialsLoose ==
    /\ status = "potentials"
    /\ LET deltas == calculateOpportunityCosts(grid, u, v)
       IN  /\ minDelta' = deltas.minDelta
           /\ enteringCell' = deltas.enteringCell
           /\ IF deltas.minDelta >= -1
              THEN /\ grid' = deltas.grid
                   /\ status' = "optimal"
                   /\ message' = "optimal"
              ELSE /\ grid' = markEntering(deltas.grid, deltas.enteringCell)
                   /\ status' = "deltas"
                   /\ message' = "not optimal"
    /\ UNCHANGED <<problem, u, v, totalCost, iteration, loop, theta>>
    /\ AutoSolveEffect(isAutoSolving)
    /\ UNCHANGED flights

\* handleNextStep, case 'potentials': calculateOpportunityCosts, then optimal
\* or the entering cell marked.
StepPotentials ==
    /\ status = "potentials"
    /\ LET deltas == calculateOpportunityCosts(grid, u, v)
       IN  /\ minDelta' = deltas.minDelta
           /\ enteringCell' = deltas.enteringCell
           /\ IF deltas.minDelta >= 0
              THEN /\ grid' = deltas.grid
                   /\ status' = "optimal"
                   /\ message' = "optimal"
              ELSE /\ grid' = markEntering(deltas.grid, deltas.enteringCell)
                   /\ status' = "deltas"
                   /\ message' = "not optimal"
    /\ UNCHANGED <<problem, u, v, totalCost, iteration, loop, theta>>
    /\ AutoSolveEffect(isAutoSolving)
    /\ UNCHANGED flights

\* handleNextStep, case 'deltas': findLoop from the marked cell; the cycle is
\* marked and the status becomes 'loop', or only the message changes.
StepDeltas ==
    /\ status = "deltas"
    /\ LET enteringNode == enteringNodeOf(grid)
       IN  IF findLoopThrows(enteringNode, grid)
           THEN status' = Crashed /\ UNCHANGED <<grid, message, loop>>
           ELSE LET found == findLoop(enteringNode, grid)
                IN  /\ loop' = found
                    /\ IF found # NullLoop
                       THEN /\ grid' = markLoop(grid, found, 0)
                            /\ status' = "loop"
                            /\ message' = "loop found"
                       ELSE /\ message' = "error: loop not found"
                            /\ UNCHANGED <<grid, status>>
    /\ UNCHANGED <<problem, u, v, totalCost, iteration, minDelta,
                   enteringCell, theta>>
    /\ AutoSolveEffect(isAutoSolving)
    /\ UNCHANGED flights

\* handleNextStep, case 'loop': findLoop again from the marked cell, then
\* applyPivot, the clean grid and status 'ready' for the next iteration.
StepLoop ==
    /\ status = "loop"
    /\ LET eNode == enteringNodeOf(grid)
       IN  IF findLoopThrows(eNode, grid)
           THEN /\ status' = Crashed
                /\ UNCHANGED <<grid, u, v, totalCost, message, iteration,
                               loop, theta>>
           ELSE LET loopToApply == findLoop(eNode, grid)
                IN  IF loopToApply # NullLoop
                    THEN LET pivot == applyPivot(grid, loopToApply)
                         IN  /\ grid' = cleanGridOf(pivot.newGrid)
                             /\ totalCost' = calculateTotalCost(pivot.newGrid)
                             /\ u' = nullPotentials(rows)
                             /\ v' = nullPotentials(cols)
                             /\ status' = "ready"
                             /\ message' = "adjusted"
                             /\ iteration' = iteration + 1
                             /\ loop' = loopToApply
                             /\ theta' = pivot.theta
                    ELSE UNCHANGED <<grid, u, v, totalCost, status, message,
                                     iteration, loop, theta>>
    /\ UNCHANGED <<problem, minDelta, enteringCell>>
    /\ AutoSolveEffect(isAutoSolving)
    /\ UNCHANGED flights

\* handleNextStep: switch (prev.status); any other status returns prev.
handleNextStep == StepReady \/ StepPotentials \/ StepDeltas \/ StepLoop

\* The updater handleNextStep passes to setSolver, as a function of prev =
\* [status, grid, u, v, iteration, totalCost] for a problem of nrows x ncols:
\* the next solver state, with status Crashed where the updater throws.
handleNextStepOn(prev, nrows, ncols) ==
    CASE prev.status = "ready" ->
           LET uv == calculatePotentials(prev.grid, nrows, ncols)
           IN  [prev EXCEPT !.u = uv.u, !.v = uv.v, !.status = "potentials"]
      [] prev.status = "potentials" ->
           LET deltas == calculateOpportunityCosts(prev.grid, prev.u, prev.v)
           IN  IF deltas.minDelta >= 0
               THEN [prev EXCEPT !.grid = deltas.grid, !.status = "optimal"]
               ELSE [prev EXCEPT !.grid = markEntering(deltas.grid, deltas.enteringCell),
                                 !.status = "deltas"]
      [] prev.status = "deltas" ->
           LET enteringNode == enteringNodeOf(prev.grid)
           IN  IF findLoopThrows(enteringNode, prev.grid)
               THEN [prev EXCEPT !.status = Crashed]
               ELSE LET found == findLoop(enteringNode, prev.grid)
                    IN  IF found # NullLoop
                        THEN [prev EXCEPT !.grid = markLoop(prev.grid, found, 0),
                                          !.status = "loop"]
                        ELSE prev
      [] prev.status = "loop" ->
           LET eNode == enteringNodeOf(prev.grid)
           IN  IF findLoopThrows(eNode, prev.grid)
               THEN [prev EXCEPT !.status = Crashed]
               ELSE LET loopToApply == findLoop(eNode, prev.grid)
                    IN  IF loopToApply # NullLoop
                        THEN LET pivot == applyPivot(prev.grid, loopToApply)
                             IN  [prev EXCEPT
                                    !.grid = cleanGridOf(pivot.newGrid),
                                    !.totalCost = calculateTotalCost(pivot.newGrid),
                                    !.u = nullPotentials(nrows),
                                    !.v = nullPotentials(ncols),
                                    !.status = "ready",
                                    !.iteration = prev.iteration + 1]
                        ELSE prev
      [] OTHER -> prev

\* handleNextIteration from status 'ready' (where its button is shown and the
\* auto-solve timer calls it), run to its end: potentials, opportunity costs,
\* then optimal, or the loop shown and, when one was found, the pivot.
handleNextIteration ==
    /\ status = "ready"
    /\ LET uv == calculatePotentials(grid, rows, cols)
           deltas == calculateOpportunityCosts(grid, uv.u, uv.v)
       IN  /\ minDelta' = deltas.minDelta
           /\ enteringCell' = deltas.enteringCell
           /\ IF deltas.minDelta >= 0
              THEN /\ grid' = deltas.grid
                   /\ u' = uv.u /\ v' = uv.v
                   /\ status' = "optimal"
                   /\ message' = "optimal"
                   /\ totalCost' = calculateTotalCost(deltas.grid)
                   /\ UNCHANGED <<iteration, loop, theta>>
              ELSE LET gridWithEntering == markEntering(deltas.grid, deltas.enteringCell)
                       loopToDisplay == IF deltas.enteringCell # NullCell
                                        THEN findLoop(deltas.enteringCell, gridWithEntering)
                                        ELSE NullLoop
                       gridWithLoop == IF loopToDisplay # NullLoop
                                       THEN markLoop(gridWithEntering, loopToDisplay, 0)
                                       ELSE gridWithEntering
                   IN  /\ loop' = loopToDisplay
                       /\ IF loopToDisplay # NullLoop
                          THEN LET pivot == applyPivot(gridWithLoop, loopToDisplay)
                                   cleanGrid == cleanGridOf(pivot.newGrid)
                               IN  /\ grid' = cleanGrid
                                   /\ u' = nullPotentials(rows)
                                   /\ v' = nullPotentials(cols)
                                   /\ status' = "ready"
                                   /\ message' = "adjusted"
                                   /\ iteration' = iteration + 1
                                   /\ totalCost' = calculateTotalCost(cleanGrid)
                                   /\ theta' = pivot.theta
                          ELSE /\ grid' = gridWithLoop
                               /\ u' = uv.u /\ v' = uv.v
                               /\ status' = "loop"
                               /\ message' = "searching the loop"
                               /\ UNCHANGED <<iteration, totalCost, theta>>
    /\ UNCHANGED problem
    /\ AutoSolveEffect(isAutoSolving)
    /\ UNCHANGED flights

\* Step by step: every balanced problem of SolveShapes, handleStart, then
\* single steps and full iterations in any order.
StepNext == handleStart \/ handleNextStep \/ handleNextIteration

SpecStep == SolveInit /\ [][StepNext]_vars

\* The same on the 3 x 3 problems with strictly positive amounts.
SpecStepSquare == SquareInit /\ [][StepNext]_vars

\* The App as mounted: no problem, the empty solver state of useState.
AppInit ==
    /\ problem = NoProblem
    /\ grid = << >>
    /\ u = << >>
    /\ v = << >>
    /\ totalCost = 0
    /\ status = "input"
    /\ message = "configure the problem"
    /\ iteration = 0
    /\ minDelta = Infinity
    /\ enteringCell = NullCell
    /\ loop = NullLoop
    /\ theta = Undefined
    /\ isAutoSolving = FALSE
    /\ timer = NoTimer
    /\ flights = << >>

\* Every cost matrix of a shape with unit costs MinCost..MaxCost.
UniformCosts(shape) == [CellsOf(shape[1], shape[2]) -> MinCost .. MaxCost]

\* handleGenerate: a new balanced problem of the shape (amounts from units,
\* cost matrix from costSet), the empty table, status 'input'.
handleGenerate(shape, units, costSet) ==
    /\ \E costs \in costSet,
          supply \in [RowsOf(shape[1]) -> units],
          demand \in [ColsOf(shape[2]) -> units] :
           /\ IsBalanced(supply, demand)
           /\ LET p == ProblemState(shape[1], shape[2], costs, supply, demand)
              IN  /\ problem' = p
                  /\ grid' = createEmptyGrid(p.rowCount, p.colCount, p.costs)
                  /\ u' = nullPotentials(p.rowCount)
                  /\ v' = nullPotentials(p.colCount)
    /\ totalCost' = 0
    /\ status' = "input"
    /\ message' = "table built"
    /\ iteration' = 0
    /\ UNCHANGED <<minDelta, enteringCell, loop, theta>>
    /\ AutoSolveEffect(FALSE)
    /\ UNCHANGED flights

\* Auto-solve of one problem: the user generates a 3 x 3 problem with
\* strictly positive amounts once and starts it; the auto-solve effect then
\* calls handleNextIteration whenever the status is 'ready'.
GenerateOnce ==
    /\ problem = NoProblem
    /\ handleGenerate(<<3, 3>>, 1 .. MaxUnits, UniformCosts(<<3, 3>>))

AutoNext == GenerateOnce \/ handleStart \/ handleNextIteration

SpecAuto == AppInit /\ [][AutoNext]_vars

\* The same on 3 x 4 problems (the shape the App starts with) whose unit costs
\* are MinCost..MaxCost + 1 on rows 0, 1 and columns 0..2 and MaxCost + 1 on
\* row 2 and column 3.
WideCosts(shape) ==
    LET block == {cell \in CellsOf(shape[1], shape[2]) : cell[1] < 2 /\ cell[2] < 3}
    IN  { [cell \in CellsOf(shape[1], shape[2]) |->
              IF cell \in block THEN b[cell] ELSE MaxCost + 1] :
          b \in [block -> MinCost .. (MaxCost + 1)] }

GenerateWide ==
    /\ problem = NoProblem
    /\ handleGenerate(<<3, 4>>, 1 .. MaxUnits, WideCosts(<<3, 4>>))

WideNext == GenerateWide \/ handleStart \/ handleNextIteration

SpecWide == AppInit /\ [][WideNext]_vars

\* The deltas step on its own: every 2 x 3 grid, whatever cells are basic,
\* in status 'deltas' with any one non-basic cell carrying the 'entering'
\* highlight, as case 'potentials' leaves it (part_003:737-744).
DeltasState(g, cell) ==
    /\ problem = ProblemOf(g)
    /\ grid = markEntering(g, cell)
    /\ u = nullPotentials(GridRows(g))
    /\ v = nullPotentials(GridCols(g))
    /\ totalCost = calculateTotalCost(g)
    /\ status = "deltas"
    /\ message = "not optimal"
    /\ iteration = 1
    /\ minDelta = Infinity
    /\ enteringCell = cell
    /\ loop = NullLoop
    /\ theta = Undefined
    /\ isAutoSolving = FALSE
    /\ timer = NoTimer
    /\ flights = << >>

DeltasInit ==
    \E basis \in SUBSET CellsOf(2, 3) :
        \E cell \in CellsOf(2, 3) \ basis :
            DeltasState(GridOf(2, 3, [c \in CellsOf(2, 3) |-> MinCost],
                               [c \in CellsOf(2, 3) |->
                                   IF c \in basis THEN MaxAlloc ELSE Null]),
                        cell)

DeltasNext == StepDeltas \/ StepLoop

SpecDeltas == DeltasInit /\ [][DeltasNext]_vars

\* Small named instances: every balanced 2 x 2 problem with costs and amounts
\* from the values below, solved by handleStart and full iterations.
ScenarioCosts == {2, 4, 6, 8}

ScenarioUnits == {0, 5, 8, 10, 12}

ScenarioInit == GeneratedState({<<2, 2>>}, ScenarioUnits, ScenarioCosts)

SpecScenario == ScenarioInit /\ [][SolveNext]_vars

\* ------------------------------------- the App with its delays and timers
\* handleNextIteration is async: it runs to its first await, waits 2 s, runs
\* to its second await, waits 2 s and runs to its end.  A call waiting in a
\* delay is a record of flights: what it captured when it began and what it
\* computed so far.  At most MaxFlights calls are followed at a time.
MaxFlights == 2

RemoveAt(seq, i) == SubSeq(seq, 1, i - 1) \o SubSeq(seq, i + 1, Len(seq))

\* handleNextIteration up to its first await, called from a closure that
\* holds problem cl.problem, solver.grid cl.grid, solver.iteration cl.iteration.
BeginIteration(cl) ==
    /\ cl.problem # NoProblem
    /\ status # Crashed
    /\ Len(flights) < MaxFlights
    /\ LET uv == calculatePotentials(cl.grid, cl.problem.rowCount,
                                     cl.problem.colCount)
       IN  u' = uv.u /\ v' = uv.v
    /\ status' = "potentials"
    /\ message' = "potentials"
    /\ flights' = Append(flights,
                         [pc |-> "delay1", problem |-> cl.problem,
                          currentGrid |-> cl.grid,
                          currentIteration |-> cl.iteration,
                          gridWithLoop |-> cl.grid,
                          loopToDisplay |-> NullLoop])
    /\ UNCHANGED <<problem, grid, totalCost, iteration, minDelta, enteringCell,
                   loop, theta>>
    /\ AutoSolveEffect(isAutoSolving)

\* handleNextIteration from its first await to its return (optimal) or its
\* second await (loop shown), for the call flights[i].
ResumeAfterPotentials(i) ==
    /\ status # Crashed
    /\ i \in DOMAIN flights
    /\ flights[i].pc = "delay1"
    /\ LET f == flights[i]
           uv == calculatePotentials(f.currentGrid, f.problem.rowCount,
                                     f.problem.colCount)
           deltas == calculateOpportunityCosts(f.currentGrid, uv.u, uv.v)
       IN  /\ minDelta' = deltas.minDelta
           /\ enteringCell' = deltas.enteringCell
           /\ IF deltas.minDelta >= 0
              THEN /\ grid' = deltas.grid
                   /\ status' = "optimal"
                   /\ message' = "optimal"
                   /\ totalCost' = calculateTotalCost(deltas.grid)
                   /\ flights' = RemoveAt(flights, i)
                   /\ UNCHANGED loop
              ELSE LET gridWithEntering == markEntering(deltas.grid, deltas.enteringCell)
                       loopToDisplay == IF deltas.enteringCell # NullCell
                                        THEN findLoop(deltas.enteringCell, gridWithEntering)
                                        ELSE NullLoop
                       gridWithLoop == IF loopToDisplay # NullLoop
                                       THEN markLoop(gridWithEntering, loopToDisplay, 0)
                                       ELSE gridWithEntering
                   IN  /\ grid' = gridWithLoop
                       /\ loop' = loopToDisplay
                       /\ status' = "loop"
                       /\ message' = "searching the loop"
                       /\ flights' = [flights EXCEPT ![i].pc = "delay2",
                                                     ![i].gridWithLoop = gridWithLoop,
                                                     ![i].loopToDisplay = loopToDisplay]
                       /\ UNCHANGED totalCost
    /\ UNCHANGED <<problem, u, v, iteration, theta>>
    /\ AutoSolveEffect(isAutoSolving)

\* handleNextIteration from its second await to its end: the pivot, when a
\* loop was found.
ResumeAfterLoop(i) ==
    /\ status # Crashed
    /\ i \in DOMAIN flights
    /\ flights[i].pc = "delay2"
    /\ LET f == flights[i]
       IN  IF f.loopToDisplay # NullLoop
           THEN LET pivot == applyPivot(f.gridWithLoop, f.loopToDisplay)
                    cleanGrid == cleanGridOf(pivot.newGrid)
                IN  /\ grid' = cleanGrid
                    /\ u' = nullPotentials(f.problem.rowCount)
                    /\ v' = nullPotentials(f.problem.colCount)
                    /\ status' = "ready"
                    /\ iteration' = f.currentIteration + 1
                    /\ totalCost' = calculateTotalCost(cleanGrid)
                    /\ message' = "adjusted"
                    /\ theta' = pivot.theta
           ELSE UNCHANGED <<grid, u, v, status, iteration, totalCost, message, theta>>
    /\ flights' = RemoveAt(flights, i)
    /\ UNCHANGED <<problem, minDelta, enteringCell, loop>>
    /\ AutoSolveEffect(isAutoSolving)

\* The closure of the current render.
CurrentClosure == [problem |-> problem, grid |-> grid, iteration |-> iteration]

\* The timeout of the auto-solve effect fires: handleNextIteration of the
\* render in which the effect ran.
TimerFires ==
    /\ timer # NoTimer
    /\ BeginIteration(timer[1])

\* handleAutoSolve: setIsAutoSolving(true), and handleStart in status 'input'.
handleAutoSolve ==
    /\ status # Crashed
    /\ IF status = "input" /\ problem # NoProblem
       THEN LET initialGrid == solveLeastCost(problem)
            IN  /\ grid' = initialGrid
                /\ totalCost' = calculateTotalCost(initialGrid)
                /\ u' = nullPotentials(rows)
                /\ v' = nullPotentials(cols)
                /\ status' = "ready"
                /\ message' = "initial solution"
                /\ iteration' = 1
       ELSE UNCHANGED <<grid, totalCost, u, v, status, message, iteration>>
    /\ UNCHANGED <<problem, minDelta, enteringCell, loop, theta, flights>>
    /\ AutoSolveEffect(TRUE)

\* The buttons, each shown under the condition the render gives it.
\* Generate: only while there is no problem.
ClickGenerate(shape, units, costSet) ==
    /\ problem = NoProblem
    /\ status # Crashed
    /\ handleGenerate(shape, units, costSet)

\* Step: a problem, status not 'input' and not 'optimal', not auto-solving.
ClickStep ==
    /\ problem # NoProblem
    /\ ~isAutoSolving
    /\ handleNextStep

\* Next iteration: as Step, and status 'ready'.
ClickNextIteration ==
    /\ status = "ready"
    /\ ~isAutoSolving
    /\ BeginIteration(CurrentClosure)

\* Auto-solve: shown where Next iteration is.
ClickAutoSolve ==
    /\ problem # NoProblem
    /\ status = "ready"
    /\ ~isAutoSolving
    /\ handleAutoSolve

\* Stop: onClick={() => setIsAutoSolving(false)}, shown while auto-solving.
ClickStop ==
    /\ problem # NoProblem
    /\ status \notin {"input", Crashed}
    /\ isAutoSolving
    /\ UNCHANGED <<problem, grid, u, v, totalCost, status, message, iteration,
                   minDelta, enteringCell, loop, theta, flights>>
    /\ AutoSolveEffect(FALSE)

\* Reset: onClick={() => setProblem(null)}, shown while not auto-solving; the
\* solver state stays as it is.
ClickReset ==
    /\ problem # NoProblem
    /\ status \notin {"input", Crashed}
    /\ ~isAutoSolving
    /\ problem' = NoProblem
    /\ UNCHANGED <<grid, u, v, totalCost, status, message, iteration,
                   minDelta, enteringCell, loop, theta, flights>>
    /\ AutoSolveEffect(isAutoSolving)

\* Every cost matrix of a shape with unit costs MinCost in row 0 and
\* MinCost..MaxCost in the other rows.
LowerCosts(shape) ==
    LET lower == {cell \in CellsOf(shape[1], shape[2]) : cell[1] > 0}
    IN  { [cell \in CellsOf(shape[1], shape[2]) |->
              IF cell \in lower THEN b[cell] ELSE MinCost] :
          b \in [lower -> MinCost .. MaxCost] }

\* The App on 2 x 2 problems with supplies and demands of one unit: the user
\* clicks whatever is shown, whenever; timers and delays end in any order.
AppNext ==
    \/ ClickGenerate(<<2, 2>>, {1}, LowerCosts(<<2, 2>>))
    \/ handleStart
    \/ ClickStep
    \/ ClickNextIteration
    \/ ClickAutoSolve
    \/ ClickStop
    \/ ClickReset
    \/ TimerFires
    \/ \E i \in DOMAIN flights : ResumeAfterPotentials(i)
    \/ \E i \in DOMAIN flights : ResumeAfterLoop(i)

SpecApp == AppInit /\ [][AppNext]_vars

\* =================================================================== claims
\* The amount a cell ships: its allocation, empty counted as 0.
Shipped(g, cell) == IF g[cell].allocation = Null THEN 0 ELSE g[cell].allocation

RowSum(g, r) == SumOver({cell \in DOMAIN g : cell[1] = r},
                        [cell \in DOMAIN g |-> Shipped(g, cell)])
ColSum(g, c) == SumOver({cell \in DOMAIN g : cell[2] = c},
                        [cell \in DOMAIN g |-> Shipped(g, cell)])

\* The least total cost over all non-negative integer allocations whose row
\* sums are the supplies s and whose column sums are the demands d, by
\* exhaustive enumeration cell by cell in row-major order from cell i
\* (Infinity when there is none).
RECURSIVE LeastCostFrom(_, _, _, _)
LeastCostFrom(p, i, s, d) ==
    IF i >= p.rowCount * p.colCount
    THEN IF (\A r \in DOMAIN s : s[r] = 0) /\ (\A c \in DOMAIN d : d[c] = 0)
         THEN 0 ELSE Infinity
    ELSE LET cell == CellAt(i, p.colCount)
             r == cell[1]
             c == cell[2]
             amounts == IF c = p.colCount - 1
                        THEN {x \in {s[r]} : x <= d[c]}
                        ELSE 0 .. Min(s[r], d[c])
             totals == { LET rest == LeastCostFrom(p, i + 1,
                                        [s EXCEPT ![r] = @ - x],
                                        [d EXCEPT ![c] = @ - x])
                         IN  IF rest = Infinity THEN Infinity
                             ELSE x * p.costs[cell] + rest : x \in amounts }
         IN  IF totals = {} THEN Infinity
             ELSE CHOOSE m \in totals : \A t \in totals : m <= t

LeastCost(p) == LeastCostFrom(p, 0, p.initialSupply, p.initialDemand)

\* The state handleStart leaves: ready, and no pivot applied yet.
AfterStart == status = "ready" /\ theta = Undefined

\* C1: when the solve (solveLeastCost, then full iterations) reports optimal,
\* the total cost is the least cost over all feasible allocations.
C1_OptimalIsLeastCost ==
    status = "optimal" => totalCost = LeastCost(problem)

\* C2: the grid solveLeastCost returns has exactly rows + cols - 1 basic cells.
C2_BasicCellCount ==
    AfterStart => Cardinality(BasicCells(grid)) = rows + cols - 1

\* A start where the greedy allocation alone gave fewer basic cells and the
\* degeneracy repair added artificial zeros.
C2_Witness ==
    /\ AfterStart
    /\ Cardinality(BasicCells(grid)) = rows + cols - 1
    /\ \E cell \in BasicCells(grid) : grid[cell].allocation = 0
    /\ \E cell \in BasicCells(grid) : grid[cell].allocation > 1

\* C3: in the grid solveLeastCost returns every row sums to its supply and
\* every column to its demand.
C3_RowsAndColumnsMet ==
    AfterStart =>
        /\ \A r \in RowsOf(rows) : RowSum(grid, r) = problem.initialSupply[r]
        /\ \A c \in ColsOf(cols) : ColSum(grid, c) = problem.initialDemand[c]

\* A start that splits a row's supply over two columns.
C3_Witness ==
    /\ AfterStart
    /\ \E r \in RowsOf(rows) :
          /\ problem.initialSupply[r] = MaxUnits
          /\ Cardinality({c \in ColsOf(cols) : Shipped(grid, <<r, c>>) > 0}) >= 2
          /\ RowSum(grid, r) = MaxUnits

\* C4: the basic cells of the grid solveLeastCost returns form a spanning
\* tree of the rows and columns (connected, no cycle).
C4_StartIsSpanningTree ==
    AfterStart => IsSpanningTree(grid)

\* C5: applyPivot keeps the basis invariant: from a grid with
\* rows + cols - 1 basic cells forming a spanning tree, along the loop
\* findLoop returns for a non-basic entering cell, through any sequence of
\* pivots, the grid again has rows + cols - 1 basic cells forming a
\* spanning tree.
C5_PivotKeepsBasis ==
    status = "ready" => BasisInvariant(grid)

\* A pivot with theta > 0 where a second minus cell tied at theta and stays
\* basic with allocation 0.
C5_Witness ==
    /\ status = "ready"
    /\ theta # Undefined /\ theta > 0
    /\ BasisInvariant(grid)
    /\ \E i \in 1 .. Len(loop) :
          /\ i % 2 = 0
          /\ grid[loop[i]].isBasin
          /\ grid[loop[i]].allocation = 0

\* C6: on a grid whose basic cells form a spanning tree calculatePotentials
\* leaves no u or v null, sets u[0] = 0, and u[r] + v[c] = cost(r, c) on
\* every basic cell.
C6_PotentialsComplete ==
    (status = "potentials" /\ IsSpanningTree(grid)) =>
        /\ \A r \in RowsOf(rows) : u[r] # Null
        /\ \A c \in ColsOf(cols) : v[c] # Null
        /\ u[0] = 0
        /\ \A cell \in BasicCells(grid) :
              u[cell[1]] + v[cell[2]] = grid[cell].cost

\* Potentials of a spanning tree that needed more than one step from u[0].
C6_Witness ==
    /\ status = "potentials"
    /\ IsSpanningTree(grid)
    /\ ~grid[<<1, 0>>].isBasin
    /\ u[1] # Null /\ u[1] # 0

\* The basic cells on the tree path between row r and column c: the basic
\* cells whose removal cuts column c off from row r.
TreePath(g, r, c) ==
    { e \in BasicCells(g) :
        <<"c", c>> \notin ReachedFrom({<<"r", r>>}, BasicCells(g) \ {e}) }

LoopNodes(path) == {path[i] : i \in 1 .. Len(path)}

\* C7: on a grid whose basic cells form a spanning tree, from any non-basic
\* start cell, findLoop does not return null and its cycle is the start cell
\* plus exactly the basic cells on the tree path between the start's row and
\* the start's column.
C7_LoopIsTreePath ==
    (/\ status \in {"loop", "error"}
     /\ BasisInvariant(grid)
     /\ ~grid[enteringCell].isBasin) =>
        /\ loop # NullLoop
        /\ LoopNodes(loop) = {enteringCell}
                             \cup TreePath(grid, enteringCell[1], enteringCell[2])

\* A cycle through six cells of a spanning tree.
C7_Witness ==
    /\ status = "loop"
    /\ BasisInvariant(grid)
    /\ ~grid[enteringCell].isBasin
    /\ Cardinality(LoopNodes(loop)) = 6

\* The cycle of a returned path: the path repeats the start cell as its
\* last node to close the cycle, and the cycle counts it once.
CycleOf(path) ==
    IF Len(path) > 1 /\ path[Len(path)] = path[1]
    THEN SubSeq(path, 1, Len(path) - 1)
    ELSE path

\* The move from cycle position i to the next position, the last position
\* moving back to the first.
IsRowMove(cyc, i) ==
    LET a == cyc[i]
        b == cyc[(i % Len(cyc)) + 1]
    IN  a[1] = b[1] /\ a[2] # b[2]
IsColMove(cyc, i) ==
    LET a == cyc[i]
        b == cyc[(i % Len(cyc)) + 1]
    IN  a[2] = b[2] /\ a[1] # b[1]

\* C8: whenever findLoop returns a cycle, on any grid from any start cell,
\* it begins at the start cell, has an even number of LoopNodes that is at
\* least 4, alternates strictly between row-moves and column-moves all the
\* way round including the closing move back to the start, and holds only
\* basic cells apart from the start cell.
C8_ReturnedCycleIsValid ==
    status = "loop" =>
        LET cyc == CycleOf(loop)
        IN  /\ cyc[1] = enteringCell
            /\ Len(cyc) % 2 = 0
            /\ Len(cyc) >= 4
            /\ \A i \in 1 .. Len(cyc) :
                  /\ IsRowMove(cyc, i) \/ IsColMove(cyc, i)
                  /\ IsRowMove(cyc, i) <=> IsColMove(cyc, (i % Len(cyc)) + 1)
            /\ \A i \in 2 .. Len(cyc) : grid[cyc[i]].isBasin

\* The cells calculateOpportunityCosts evaluates: not basic, both potentials
\* known.
Evaluated(g, pu, pv) ==
    { cell \in DOMAIN g :
        ~g[cell].isBasin /\ pu[cell[1]] # Null /\ pv[cell[2]] # Null }

\* C9: calculateOpportunityCosts sets opportunityCost = cost - (u + v) on
\* every non-basic cell with both potentials known, leaves it undefined on
\* every other cell, and returns the minimum of the values it set.
C9_OpportunityCosts ==
    status = "deltas" =>
        /\ \A cell \in Evaluated(grid, u, v) :
              grid[cell].opportunityCost
                = grid[cell].cost - (u[cell[1]] + v[cell[2]])
        /\ \A cell \in DOMAIN grid \ Evaluated(grid, u, v) :
              grid[cell].opportunityCost = Undefined
        /\ Evaluated(grid, u, v) # {} =>
              /\ \E cell \in Evaluated(grid, u, v) :
                    grid[cell].opportunityCost = minDelta
              /\ \A cell \in Evaluated(grid, u, v) :
                    minDelta <= grid[cell].opportunityCost

\* A negative opportunity cost is set, next to a non-basic cell left
\* undefined because a potential is unknown.
C9_Witness ==
    /\ status = "deltas"
    /\ minDelta < 0
    /\ \E cell \in Evaluated(grid, u, v) : grid[cell].opportunityCost = minDelta
    /\ \E cell \in DOMAIN grid \ BasicCells(grid) :
          /\ cell \notin Evaluated(grid, u, v)
          /\ grid[cell].opportunityCost = Undefined

\* C10: the entering cell is the first cell in row-major order among those
\* attaining the minimum opportunity cost.
C10_FirstMinimumEnters ==
    (status = "deltas" /\ Evaluated(grid, u, v) # {}) =>
        /\ enteringCell \in Evaluated(grid, u, v)
        /\ grid[enteringCell].opportunityCost = minDelta
        /\ \A cell \in Evaluated(grid, u, v) :
              grid[cell].opportunityCost = minDelta =>
                  enteringCell[1] * cols + enteringCell[2]
                    <= cell[1] * cols + cell[2]

\* Two cells tie at a negative minimum and the earlier one enters.
C10_Witness ==
    /\ status = "deltas"
    /\ minDelta < 0
    /\ \E cell \in Evaluated(grid, u, v) :
          /\ cell # enteringCell
          /\ grid[cell].opportunityCost = minDelta
          /\ enteringCell[1] * cols + enteringCell[2] < cell[1] * cols + cell[2]

\* The odd positions (0-based) of a returned path: the minus cells.
OddPositions(path) == {i \in 0 .. (Len(path) - 1) : i % 2 = 1}

\* C11: in applyPivot theta is the minimum allocation over the cells at odd
\* positions of the cycle, the leaving cell is the first odd-position cell in
\* cycle order attaining it, and in the returned grid that cell, and no other
\* cell that was basic, is non-basic with allocation null.
C11_ThetaAndLeavingCell ==
    [][(status = "loop" /\ status' = "ready") =>
        LET odd == OddPositions(loop)
            first == CHOOSE i \in odd :
                        /\ grid[NodeAt(loop, i)].allocation = theta'
                        /\ \A j \in odd :
                              j < i => grid[NodeAt(loop, j)].allocation # theta'
            leavingCell == NodeAt(loop, first)
        IN  /\ \E i \in odd : grid[NodeAt(loop, i)].allocation = theta'
            /\ \A i \in odd : theta' <= grid[NodeAt(loop, i)].allocation
            /\ ~grid'[leavingCell].isBasin
            /\ grid'[leavingCell].allocation = Null
            /\ BasicCells(grid) \ BasicCells(grid') = {leavingCell}]_vars

\* A pivot where two minus cells tied at theta > 0: the earlier one in cycle
\* order left, the later one stays basic with allocation 0.
C11_Witness ==
    /\ status = "ready"
    /\ theta # Undefined /\ theta > 0
    /\ \E i, j \in OddPositions(loop) :
          /\ i < j
          /\ ~grid[NodeAt(loop, i)].isBasin
          /\ grid[NodeAt(loop, i)].allocation = Null
          /\ grid[NodeAt(loop, j)].isBasin
          /\ grid[NodeAt(loop, j)].allocation = 0

\* C12: a pivot on a grid that satisfies the basis invariant, with the
\* entering cell chosen by calculateOpportunityCosts (minDelta < 0), lowers
\* the total cost strictly when theta > 0 and leaves it equal when theta = 0.
C12_CostNeverIncreases ==
    [][(status = "ready" /\ status' = "ready" /\ BasisInvariant(grid)) =>
        /\ minDelta' < 0
        /\ theta' > 0 => totalCost' < totalCost
        /\ theta' = 0 => totalCost' = totalCost]_vars

\* A degenerate pivot (theta = 0) was applied to a grid satisfying the basis
\* invariant, of a problem whose costs are not all equal.
C12_Witness ==
    /\ status = "ready"
    /\ iteration > 1
    /\ theta = 0
    /\ minDelta < 0
    /\ BasisInvariant(grid)
    /\ totalCost > 0

\* Two grids with the same allocations and the same basic cells.
SameAllocations(g, h) ==
    /\ DOMAIN g = DOMAIN h
    /\ \A cell \in DOMAIN g :
          /\ g[cell].allocation = h[cell].allocation
          /\ g[cell].isBasin = h[cell].isBasin

\* C13: from the same ready state, one full iteration (performFullIteration,
\* or handleNextIteration run to its end) and the single steps ready,
\* potentials, deltas, loop of handleNextStep end with the same allocations,
\* basic cells and total cost; an optimal grid ends in optimal both ways.
\* The single steps up to status loop leave the allocations of the ready
\* grid in place, so the full iteration is taken on the cleaned current grid.
C13_StepsEqualFullIteration ==
    [][LET full == performFullIteration(cleanGridOf(grid), rows, cols)
       IN  /\ (status = "ready" /\ status' # "potentials") =>
                 /\ status' = (IF full.kind = "optimal" THEN "optimal" ELSE "ready")
                 /\ SameAllocations(grid', full.grid)
                 /\ totalCost' = full.cost
           /\ (status = "potentials" /\ status' = "optimal") =>
                 /\ full.kind = "optimal"
                 /\ SameAllocations(grid', full.grid)
                 /\ totalCost' = full.cost
           /\ (status = "potentials" /\ status' = "deltas") => full.kind = "pivot"
           /\ (status = "loop" /\ status' # "loop") =>
                 /\ status' = "ready"
                 /\ SameAllocations(grid', full.grid)
                 /\ totalCost' = full.cost]_vars

\* The number of spanning trees of the rows and columns, that is of bases
\* satisfying the basis invariant: rows^(cols-1) * cols^(rows-1).
BasesOf(nrows, ncols) == (nrows ^ (ncols - 1)) * (ncols ^ (nrows - 1))

\* C14: for every balanced problem, repeating full iterations from the grid
\* of solveLeastCost reaches status optimal after finitely many pivots: every
\* full iteration ends in optimal or applies a pivot that changes the basis
\* (also when theta = 0) and leaves the solver ready again, never stuck in
\* another status, and no solve takes more pivots than there are bases.
C14_ReachesOptimal ==
    [][/\ status' \in {"input", "ready", "optimal"}
       /\ status = "ready" =>
             \/ status' = "optimal"
             \/ /\ status' = "ready"
                /\ iteration' = iteration + 1
                /\ iteration' <= BasesOf(rows, cols) + 1
                /\ BasicCells(grid') # BasicCells(grid)]_vars

\* Optimal was reached after a degenerate pivot (theta = 0).
C14_Witness ==
    /\ status = "optimal"
    /\ iteration > 1
    /\ theta = 0

\* The values of SolverStatus (part_004:23).
SolverStatus == {"input", "ready", "potentials", "deltas", "loop", "optimal"}

HasUnknown(pu, pv) ==
    \/ \E r \in DOMAIN pu : pu[r] = Null
    \/ \E c \in DOMAIN pv : pv[c] = Null

\* C16: when calculatePotentials leaves some u or v unknown on the current
\* grid, the step or full iteration that uses those potentials neither
\* reports status optimal nor applies a pivot: the allocations and the basis
\* stay as they were.
C16_UnknownPotentialsStop ==
    [][(/\ status \in {"ready", "potentials"}
        /\ LET uv == calculatePotentials(grid, rows, cols)
           IN  HasUnknown(uv.u, uv.v))
       => /\ status' # "optimal"
          /\ SameAllocations(grid', grid)]_vars

\* C17: at status optimal, calculatePotentials and calculateOpportunityCosts
\* run again on the grid give minDelta >= 0 again, and the grid they return
\* has every cell's allocation and basis membership unchanged and the same
\* total cost; performFullIteration on it reports optimal with that cost.
C17_OptimalIsIdempotent ==
    status = "optimal" =>
        LET uv == calculatePotentials(grid, rows, cols)
            deltas == calculateOpportunityCosts(grid, uv.u, uv.v)
            full == performFullIteration(grid, rows, cols)
        IN  /\ deltas.minDelta >= 0
            /\ deltas.minDelta = minDelta
            /\ SameAllocations(deltas.grid, grid)
            /\ calculateTotalCost(deltas.grid) = totalCost
            /\ full.kind = "optimal"
            /\ SameAllocations(full.grid, grid)
            /\ full.cost = totalCost

\* Optimal reached after a pivot, with some opportunity cost evaluated.
C17_Witness ==
    /\ status = "optimal"
    /\ iteration > 1
    /\ minDelta < Infinity
    /\ \E cell \in DOMAIN grid : grid[cell].opportunityCost = 0

\* The 2 x 2 problem with costs [[4,6],[8,2]], supply [10,10], demand [12,8].
TwoByTwoScenario ==
    ProblemState(2, 2,
                 [cell \in CellsOf(2, 2) |->
                     CASE cell = <<0, 0>> -> 4 [] cell = <<0, 1>> -> 6
                       [] cell = <<1, 0>> -> 8 [] OTHER -> 2],
                 [r \in RowsOf(2) |-> 10],
                 [c \in ColsOf(2) |-> IF c = 0 THEN 12 ELSE 8])

\* C18: on the 2 x 2 problem with costs [[4,6],[8,2]], supply [10,10] and
\* demand [12,8], the first allocation of solveLeastCost is 8 units on the
\* cost-2 cell (1,1), which keeps them in the grid handleStart stores, and
\* the total cost when status optimal is reached is the smallest total cost
\* of all feasible allocations of the problem.
C18_ScenarioOptimum ==
    problem = TwoByTwoScenario =>
        /\ LET cellsList == cellsListOf(problem)
               first == GreedyBody([grid |-> createEmptyGrid(2, 2, problem.costs),
                                    s |-> problem.initialSupply,
                                    d |-> problem.initialDemand,
                                    basicCellsCount |-> 0], cellsList[1])
           IN  /\ cellsList[1] = <<1, 1>>
               /\ problem.costs[cellsList[1]] = 2
               /\ first.basicCellsCount = 1
               /\ first.grid[<<1, 1>>].allocation = 8
        /\ status # "input" => grid[<<1, 1>>].allocation = 8
        /\ status = "optimal" => totalCost = LeastCost(problem)

\* The scenario solved to status optimal.
C18_Witness ==
    /\ problem = TwoByTwoScenario
    /\ status = "optimal"
    /\ totalCost = calculateTotalCost(grid)
    /\ grid[<<1, 1>>].isBasin

\* A 2 x 2 problem with supply [5,0] and demand [5,0].
IsDegenerateScenario(p) ==
    /\ p.rowCount = 2 /\ p.colCount = 2
    /\ p.initialSupply = [r \in RowsOf(2) |-> IF r = 0 THEN 5 ELSE 0]
    /\ p.initialDemand = [c \in ColsOf(2) |-> IF c = 0 THEN 5 ELSE 0]

\* C19: for a 2 x 2 problem with supply [5,0] and demand [5,0], whatever the
\* costs, the grid of solveLeastCost has exactly 3 basic cells, at least one
\* of them with allocation 0, and calculatePotentials on it ends with every
\* u and v known.
C19_DegenerateStart ==
    (IsDegenerateScenario(problem) /\ AfterStart) =>
        /\ grid = solveLeastCost(problem)
        /\ Cardinality(BasicCells(grid)) = 3
        /\ \E cell \in BasicCells(grid) : grid[cell].allocation = 0
        /\ LET uv == calculatePotentials(grid, rows, cols)
           IN  ~HasUnknown(uv.u, uv.v)

\* The degenerate problem started: 5 units on (0,0) and two artificial zeros,
\* with costs that are not all equal.
C19_Witness ==
    /\ IsDegenerateScenario(problem)
    /\ AfterStart
    /\ grid[<<0, 0>>].allocation = 5
    /\ Cardinality({cell \in BasicCells(grid) : grid[cell].allocation = 0}) = 2
    /\ problem.costs[<<0, 0>>] > problem.costs[<<1, 1>>]

\* C20: in every grid reached from solveLeastCost by iterations, each row's
\* allocations sum to its supply, each column's to its demand, every basic
\* cell has an allocation >= 0 and every non-basic cell an empty allocation.
C20_FeasibilityKept ==
    status \in {"ready", "optimal"} =>
        /\ \A r \in RowsOf(rows) : RowSum(grid, r) = problem.initialSupply[r]
        /\ \A c \in ColsOf(cols) : ColSum(grid, c) = problem.initialDemand[c]
        /\ \A cell \in DOMAIN grid :
              IF grid[cell].isBasin
              THEN grid[cell].allocation # Null /\ grid[cell].allocation >= 0
              ELSE grid[cell].allocation = Null

\* C21: from status loop, one handleNextStep applies the pivot along the cycle
\* found in the deltas step (stored in loop) for the entering cell chosen in
\* the potentials step, adds exactly 1 to iteration, resets every u and v to
\* unknown and sets status to ready.
C21_LoopStepPivots ==
    [][status = "loop" =>
        /\ status' = "ready"
        /\ iteration' = iteration + 1
        /\ u' = nullPotentials(rows)
        /\ v' = nullPotentials(cols)
        /\ loop[1] = enteringCell
        /\ SameAllocations(grid', applyPivot(grid, loop).newGrid)]_vars

\* The status changes of the solver's state machine.
StatusChanges ==
    {<<"input", "ready">>, <<"ready", "potentials">>, <<"potentials", "deltas">>,
     <<"potentials", "optimal">>, <<"deltas", "loop">>, <<"loop", "ready">>}

\* C22: every change of status made by handleStart, handleNextStep or
\* handleNextIteration (every change but handleGenerate's, which sets 'input',
\* and an uncaught exception) is input to ready, ready to potentials,
\* potentials to deltas, potentials to optimal, deltas to loop or loop to
\* ready.
C22_StatusChanges ==
    [][(status' # status /\ status' \notin {"input", Crashed})
       => <<status, status'>> \in StatusChanges]_vars

\* C23: status optimal is terminal: from a state with status optimal no step,
\* full iteration or timer changes the status, the grid, the iteration
\* counter or the total cost (only handleGenerate, which sets status 'input'
\* for a new problem, does).
C23_OptimalIsTerminal ==
    [][(status = "optimal" /\ status' # "input")
       => /\ status' = "optimal"
          /\ grid' = grid
          /\ iteration' = iteration
          /\ totalCost' = totalCost]_vars

\* The solver state with the highlights of its grid replaced by those of h.
WithHighlights(h) ==
    [status |-> status,
     grid |-> [cell \in DOMAIN grid |-> [grid[cell] EXCEPT !.highlight = h[cell]]],
     u |-> u, v |-> v, iteration |-> iteration, totalCost |-> totalCost]

\* Highlight values that differ from the current ones: none at all, or
\* 'entering' on one cell only.
OtherHighlights ==
    LET none == [cell \in DOMAIN grid |-> "none"]
    IN  ({none} \cup {[none EXCEPT ![cell] = "entering"] : cell \in DOMAIN grid})
            \ {[cell \in DOMAIN grid |-> grid[cell].highlight]}

\* A call of handleNextStep is taken.
IsNextStep ==
    \/ status = "ready" /\ status' = "potentials"
    \/ status \in {"potentials", "deltas", "loop"}

\* C24: highlights are no solver state: for every call of handleNextStep, the
\* same call on the state that differs only in the highlights of its cells
\* gives the same status, allocations, basic cells, potentials, iteration
\* counter and total cost.
C24_HighlightIsNoState ==
    [][IsNextStep =>
        \A h \in OtherHighlights :
            LET other == handleNextStepOn(WithHighlights(h), rows, cols)
            IN  /\ other.status = status'
                /\ SameAllocations(other.grid, grid')
                /\ other.u = u' /\ other.v = v'
                /\ other.iteration = iteration'
                /\ other.totalCost = totalCost']_vars

\* C25: every pivot swaps exactly one basic cell for another: in the grid
\* applyPivot returns the entering cell (cycle position 0) is basic, exactly
\* one cell that was basic is non-basic, and every other cell keeps its basis
\* membership; with theta = 0 the entering cell is basic with allocation 0,
\* and odd-position cells that tie at theta without leaving stay basic with
\* allocation 0.
C25_PivotSwapsOneCell ==
    [][(status = "loop" /\ status' = "ready") =>
        LET entering == NodeAt(loop, 0)
            left == BasicCells(grid) \ BasicCells(grid')
        IN  /\ grid'[entering].isBasin
            /\ Cardinality(left) = 1
            /\ \A cell \in DOMAIN grid \ (left \cup {entering}) :
                  grid'[cell].isBasin = grid[cell].isBasin
            /\ theta' = 0 => grid'[entering].allocation = 0
            /\ \A i \in OddPositions(loop) :
                  LET cell == NodeAt(loop, i)
                  IN  (grid[cell].allocation = theta' /\ cell \notin left)
                        => (grid'[cell].isBasin /\ grid'[cell].allocation = 0)]_vars

\* A degenerate pivot with a tie: theta = 0, the entering cell basic with
\* allocation 0, the first odd-position cell out of the basis and a later
\* one still basic with allocation 0.
C25_Witness ==
    /\ status = "ready"
    /\ theta = 0
    /\ loop # NullLoop
    /\ grid[NodeAt(loop, 0)].isBasin
    /\ grid[NodeAt(loop, 0)].allocation = 0
    /\ \E i, j \in OddPositions(loop) :
          /\ i < j
          /\ ~grid[NodeAt(loop, i)].isBasin
          /\ grid[NodeAt(loop, j)].isBasin
          /\ grid[NodeAt(loop, j)].allocation = 0

\* C26: in every reachable solver state totalCost equals the sum over all
\* cells of the current grid of allocation * cost, empty cells counted as 0:
\* after handleStart, after every single step and after every stage of a
\* full iteration.
C26_TotalCostIsCurrent ==
    status # Crashed => totalCost = calculateTotalCost(grid)

\* C27: a full iteration is never started while an earlier one is still in
\* flight: from the moment handleNextIteration begins until it commits its
\* pivot or reports optimal, no second handleNextIteration begins, whatever
\* the user clicks and whenever the auto-run timer fires.
C27_OneIterationInFlight ==
    Len(flights) <= 1

\* The grid g is a table of the problem p: it has p's dimensions and every
\* cell carries p's cost.
GridBelongsTo(g, p) ==
    /\ DOMAIN g = CellsOf(p.rowCount, p.colCount)
    /\ \A cell \in DOMAIN g : g[cell].cost = p.costs[cell]

\* C28: no stale write after a reset: in every reachable state with a
\* problem the solver grid belongs to that problem, a generated problem in
\* status input has no allocation, and the status leaves input only by
\* handleStart (to ready, on the same problem), also when the user resets
\* and generates while handleNextIteration waits in one of its delays.
C28_NoStaleWrite ==
    [][/\ problem' # NoProblem => GridBelongsTo(grid', problem')
       /\ (problem' # NoProblem /\ status' = "input")
             => \A cell \in DOMAIN grid' : grid'[cell].allocation = Null
       /\ (problem # NoProblem /\ status = "input" /\ status' # "input")
             => (status' = "ready" /\ problem' = problem /\ flights' = flights)]_vars

\* An auto-solve run with nobody at the controls once it is on: the user
\* generates a 3 x 3 problem and switches auto-solve on, in status 'ready'
\* (after Start) or in status 'input' (handleAutoSolve then calls
\* handleStart, part_003:908-910); from then on only timeouts end.
AutoSolveFromInput ==
    /\ problem # NoProblem
    /\ status = "input"
    /\ ~isAutoSolving
    /\ handleAutoSolve

AutoRunNext ==
    \/ GenerateOnce
    \/ handleStart
    \/ ClickAutoSolve
    \/ AutoSolveFromInput
    \/ TimerFires
    \/ ResumeAfterPotentials(1)
    \/ ResumeAfterLoop(1)

\* The guards of TimerFires, ResumeAfterPotentials(1) and ResumeAfterLoop(1):
\* each of these actions has a next state exactly when its guard holds, and
\* that state differs from the current one in flights.
TimerPending ==
    /\ timer # NoTimer
    /\ timer[1].problem # NoProblem
    /\ status # Crashed
    /\ Len(flights) < MaxFlights

DelayPending(pc) ==
    /\ status # Crashed
    /\ 1 \in DOMAIN flights
    /\ flights[1].pc = pc

\* A timeout that stays pending ends: setTimeout(handleNextIteration, 500)
\* of the effect and the two delay(2000) of handleNextIteration. This is
\* weak fairness of the three actions, with their enabling conditions
\* written out as the guards above.
TimersAreFair ==
    /\ []<>(~TimerPending) \/ []<><<TimerFires>>_vars
    /\ []<>(~DelayPending("delay1")) \/ []<><<ResumeAfterPotentials(1)>>_vars
    /\ []<>(~DelayPending("delay2")) \/ []<><<ResumeAfterLoop(1)>>_vars

SpecAutoRun == AppInit /\ [][AutoRunNext]_vars /\ TimersAreFair

\* C29: once auto-solve is on, in status ready or input, and the user does
\* nothing else, the timers being fair, the solver eventually reaches status
\* optimal with isAutoSolving false; it never stays forever in status
\* potentials or loop with auto-solve on.
C29_AutoSolveEnds ==
    isAutoSolving ~> (status = "optimal" /\ ~isAutoSolving)

\* An auto-solve run that pivoted at least twice has ended: status optimal,
\* auto-solve off, no timeout pending and no call waiting.
C29_Witness ==
    /\ status = "optimal"
    /\ ~isAutoSolving
    /\ iteration > 2
    /\ timer = NoTimer
    /\ flights = << >>

\* C30: for every pivot on a grid that satisfies the basis invariant, the
\* total cost after applyPivot equals the total cost before plus theta times
\* the opportunity cost of the entering cell, the minDelta that
\* calculateOpportunityCosts returns for that grid.
C30_CostChangeIsThetaDelta ==
    [][(/\ status = "ready"
        /\ status' = "ready"
        /\ iteration' = iteration + 1
        /\ BasisInvariant(grid))
       => LET uv == calculatePotentials(grid, rows, cols)
              deltas == calculateOpportunityCosts(grid, uv.u, uv.v)
          IN  /\ loop'[1] = deltas.enteringCell
              /\ calculateTotalCost(grid')
                    = calculateTotalCost(grid) + theta' * deltas.minDelta]_vars

\* A pivot that moved a positive amount along a cell of negative
\* opportunity cost has lowered the total cost and kept the basis invariant.
C30_Witness ==
    /\ status = "ready"
    /\ iteration > 1
    /\ theta \in 1 .. MaxUnits
    /\ minDelta < 0
    /\ BasisInvariant(grid)
    /\ totalCost = calculateTotalCost(grid)
====
